---- MODULE Spec2Model ----
(***************************************************************************)
(* A model of jenkins_mcp_server_enhanced.py: the CSRF crumb cache, the    *)
(* request executor, the recursive folder walk and the tools built on it   *)
(* (list_jobs, search_jobs, get_job_info, search_and_trigger,              *)
(* trigger_job).                                                           *)
(*                                                                         *)
(* Python strings are sequences of one-character strings, so that lower(), *)
(* fnmatch, substring containment and split('/') are computed, not         *)
(* assumed.  The remote Jenkins is the environment: what it lists and      *)
(* which fetches fail are inputs drawn from bounded sets.                  *)
(*                                                                         *)
(* Spec        : the browsing tools, one invocation at a time.             *)
(* SpecTrigger : trigger_job and search_and_trigger, request by request.   *)
(* SpecCrumb   : concurrent workers going through the request executor and *)
(*               the lock-guarded crumb cache, with a clock.               *)
(* SpecUrl     : the URL each job-scoped operation asks for.               *)
(* SpecWalk    : _collect_jobs_recursive call by call, with its stack.     *)
(***************************************************************************)
EXTENDS Integers, Sequences, FiniteSets, TLC

VARIABLES
    server,         \* Spec: what the remote Jenkins lists (fixed per behaviour)
    pc,             \* Spec: "idle" | "done"
    op,             \* Spec: the tool invoked last
    args,           \* Spec: its arguments
    env,            \* Spec: what the remote did during the invocation
    walk,           \* Spec: what _collect_jobs_recursive returned and requested
    http,           \* Spec: the HTTP requests of the invocation, in order
    result,         \* Spec: what the tool returned or raised
    local,          \* SpecTrigger, SpecWalk: the locals of the invocation under way
    crumb_token,    \* _crumb_cache["token"]
    crumb_expires,  \* _crumb_cache["expires"]
    now,            \* datetime.now(), in minutes
    lock,           \* SpecCrumb: the holder of _crumb_cache["lock"], or NoHolder
    wk,             \* SpecCrumb: each worker's position and locals
    window_fetches, \* SpecCrumb: crumb fetches started since the cache last became stale
    window_failed   \* SpecCrumb: those of them that have failed

toolVars == <<server, pc, op, args, env, walk, http, result, local>>
cacheVars == <<crumb_token, crumb_expires, now>>
workerVars == <<lock, wk, window_fetches, window_failed>>

None == "None"

\* no invocation, or nothing yet
NoCall == [kind |-> "none"]

\* Python values, tagged by type
PyNone == [t |-> "none"]
PyStr(x) == [t |-> "str", v |-> x]
PyBool(x) == [t |-> "bool", v |-> x]
PyInt(x) == [t |-> "int", v |-> x]
PyList(x) == [t |-> "list", v |-> x]
PyDict(x) == [t |-> "dict", v |-> x]

-----------------------------------------------------------------------------
(* Bounds of the model *)

MaxDepth == 3       \* max_depth arguments range over 0..MaxDepth
MaxFail == 1        \* at most this many fetches fail during one walk
MaxTime == 30       \* the clock stops at this minute
MaxWorkers == 2     \* concurrent workers of SpecCrumb
MaxFetches == 3     \* crumb fetches counted within one cache-miss window

-----------------------------------------------------------------------------
(* Strings *)

UpperChars == <<"A","B","C","D","E","F","G","H","I","J","K","L","M",
                "N","O","P","Q","R","S","T","U","V","W","X","Y","Z">>
LowerChars == <<"a","b","c","d","e","f","g","h","i","j","k","l","m",
                "n","o","p","q","r","s","t","u","v","w","x","y","z">>

\* str.lower() on one character
LowerChar(c) ==
    IF \E i \in DOMAIN UpperChars : UpperChars[i] = c
    THEN LowerChars[CHOOSE i \in DOMAIN UpperChars : UpperChars[i] = c]
    ELSE c

\* str.lower()
Lower(s) == [i \in 1..Len(s) |-> LowerChar(s[i])]

\* str.upper() on one character
UpperChar(c) ==
    IF \E i \in DOMAIN LowerChars : LowerChars[i] = c
    THEN UpperChars[CHOOSE i \in DOMAIN LowerChars : LowerChars[i] = c]
    ELSE c

\* str.upper()
Upper(s) == [i \in 1..Len(s) |-> UpperChar(s[i])]

\* needle in hay (Python substring containment)
Contains(hay, needle) ==
    \E i \in 0..(Len(hay) - Len(needle)) :
        SubSeq(hay, i + 1, i + Len(needle)) = needle

\* fnmatch.fnmatch(s, p) for patterns made of literals, '*' and '?'
\* (the whole of s must match; '*' also runs over '/')
RECURSIVE FnMatch(_, _)
FnMatch(s, p) ==
    IF p = <<>> THEN s = <<>>
    ELSE IF Head(p) = "*"
         THEN FnMatch(s, Tail(p)) \/ (s # <<>> /\ FnMatch(Tail(s), p))
    ELSE IF s = <<>> THEN FALSE
    ELSE (Head(p) = "?" \/ Head(p) = Head(s)) /\ FnMatch(Tail(s), Tail(p))

\* s.split('/')
RECURSIVE Split(_)
Split(s) ==
    IF \A i \in DOMAIN s : s[i] # "/" THEN <<s>>
    ELSE LET k == CHOOSE i \in DOMAIN s :
                      s[i] = "/" /\ \A j \in 1..(i - 1) : s[j] # "/"
         IN <<SubSeq(s, 1, k - 1)>> \o Split(SubSeq(s, k + 1, Len(s)))

\* the segments of a job path; the top level has none
Segments(path) == IF path = <<>> THEN <<>> ELSE Split(path)

-----------------------------------------------------------------------------
(* The remote Jenkins: names, type tags, listings *)

nBA  == <<"b","-","a">>
nBB  == <<"B","-","b">>
nBF  == <<"b","F">>
nLib == <<"l","i","b">>
nX   == <<"x">>

\* _class tags: two that hold "folder" in some case, two that do not
cFolder    == <<"F","o","l","d","e","r">>
cOrgFolder == <<"O","r","g","F","O","L","D","E","R">>
cProject   == <<"P","r","o","j","e","c","t">>
cNoClass   == <<>>

folderMarker == <<"f","o","l","d","e","r">>

Item(n, c) == [name |-> n, class |-> c]

RootListings ==
    { << Item(nBA, cProject), Item(nBF, cFolder), Item(nBB, cProject) >>,
      << Item(nLib, cFolder), Item(nBA, cNoClass) >>,
      << Item(nLib, cOrgFolder), Item(nBF, cFolder) >> }

LibListings ==
    { << Item(nBA, cProject) >>,
      << Item(nBF, cFolder), Item(nX, cProject) >> }

BFListings ==
    { << >>,
      << Item(nBB, cProject), Item(nLib, cFolder) >> }

\* A remote hierarchy: what the top level lists and what each container
\* lists.  A container is found by its name, so the hierarchy may be a tree,
\* or cyclic (lib holds bF, bF holds lib).
Servers ==
    { [root |-> r, sub |-> (nLib :> l) @@ (nBF :> b)] :
        r \in RootListings, l \in LibListings, b \in BFListings }

\* The listing a path resolves to: every segment must be listed by the
\* container before it; an item that is no container holds no "jobs".
RECURSIVE Resolve(_, _, _)
Resolve(srv, listing, segs) ==
    IF segs = <<>> THEN [found |-> TRUE, jobs |-> listing]
    ELSE IF \A i \in DOMAIN listing : listing[i].name # Head(segs)
         THEN [found |-> FALSE, jobs |-> <<>>]
    ELSE Resolve(srv,
                 IF Head(segs) \in DOMAIN srv.sub THEN srv.sub[Head(segs)] ELSE <<>>,
                 Tail(segs))

\* GET <path>/api/json during a walk: the fetches in fail end in an error
\* (transport or HTTP), a path the remote does not hold is a 404
ServerResponse(srv, fail, path) ==
    LET r == Resolve(srv, srv.root, Segments(path))
    IN  IF path \in fail \/ ~r.found THEN [status |-> "error", jobs |-> <<>>]
        ELSE [status |-> "ok", jobs |-> r.jobs]

-----------------------------------------------------------------------------
(* The crumb cache *)

CrumbTTL == 30      \* timedelta(minutes=30)
NoExpiry == -1      \* "expires": None

\* the crumbs the remote may issue
CrumbTokens == {"crumb-1", "crumb-2"}

\* what GET crumbIssuer/api/json may end in: a crumb, an HTTP error status,
\* a transport error, or a body with no (or an empty) crumb field
CrumbResponses ==
    { [kind |-> "ok", crumb |-> c] : c \in CrumbTokens }
    \cup { [kind |-> k, crumb |-> None] :
             k \in {"http_error", "transport_error", "no_crumb"} }

\* mutant: the expiry instant itself still counts as valid (<=)
CrumbValidLate(token, expires, t) ==
    token # None /\ expires # NoExpiry /\ t <= expires

\* the test of the cached crumb at time t
CrumbValid(token, expires, t) ==
    token # None /\ expires # NoExpiry /\ t < expires

\* mutant: a failed fetch clears the cache
CrumbAfterFetchClearing(token, expires, t, resp) ==
    IF resp.kind = "ok" /\ resp.crumb # None
    THEN [token |-> resp.crumb, expires |-> t + CrumbTTL, returned |-> resp.crumb]
    ELSE [token |-> None, expires |-> NoExpiry, returned |-> None]

\* the cache and the returned value once the fetch has ended at time t: a
\* crumb is stored for CrumbTTL minutes and returned; an error, or a body
\* without a crumb, leaves the cache alone and returns None
CrumbAfterFetch(token, expires, t, resp) ==
    IF resp.kind = "ok" /\ resp.crumb # None
    THEN [token |-> resp.crumb, expires |-> t + CrumbTTL, returned |-> resp.crumb]
    ELSE [token |-> token, expires |-> expires, returned |-> None]

\* get_jenkins_crumb with no other caller about: the cached crumb if valid,
\* else one fetch
GetJenkinsCrumb(token, expires, t, resp) ==
    IF CrumbValid(token, expires, t)
    THEN [token |-> token, expires |-> expires, returned |-> token,
          fetched |-> FALSE]
    ELSE LET a == CrumbAfterFetch(token, expires, t, resp)
         IN  [token |-> a.token, expires |-> a.expires, returned |-> a.returned,
              fetched |-> TRUE]

mGET    == <<"G","E","T">>
mPOST   == <<"P","O","S","T">>
mPUT    == <<"P","U","T">>
mDELETE == <<"D","E","L","E","T","E">>
mPost   == <<"p","o","s","t">>

\* the verbs that get a crumb
MutatingVerbs == {mPOST, mPUT, mDELETE}

\* mutant: the test of the verb forgets upper()
NeedsCrumbCaseSensitive(method) == method \in MutatingVerbs

\* method.upper() in ['POST', 'PUT', 'DELETE']
NeedsCrumb(method) == Upper(method) \in MutatingVerbs

\* the clock is read every ten minutes, or after a whole CrumbTTL
ClockSteps == {10, CrumbTTL}

\* the clock advances
Tick ==
    /\ \E d \in ClockSteps :
         /\ now + d <= MaxTime
         /\ now' = now + d
    /\ UNCHANGED <<toolVars, crumb_token, crumb_expires, workerVars>>

-----------------------------------------------------------------------------
(* The tree walk *)

Request(method, route, path, suffix, crumb) ==
    [method |-> method, route |-> route, path |-> path,
     suffix |-> suffix, crumb |-> crumb]

\* the request of one walk step: nested for a path, the top-level listing else
WalkRequest(path) ==
    IF path # <<>> THEN Request(mGET, "nested", path, "api/json", None)
    ELSE Request(mGET, "root", <<>>, "api/json", None)

NoWalk == [jobs |-> <<>>, reqs |-> <<>>, raised |-> FALSE]

TreeItem(name, full_name, type) ==
    [name |-> name, full_name |-> full_name, type |-> type]

RECURSIVE CollectJobsRecursive(_, _, _, _, _)
RECURSIVE CollectJobsNoCatch(_, _, _, _, _)
RECURSIVE CollectJobsDepthOff(_, _, _, _, _)
RECURSIVE CollectItems(_, _, _, _, _, _)

\* mutant: the items of a folder come after all its siblings
CollectItemsSiblingsFirst(srv, fail, path, items, max_depth, current_depth) ==
    IF items = <<>> THEN NoWalk
    ELSE
      LET item == Head(items)
          full_name == IF path # <<>> THEN path \o <<"/">> \o item.name
                       ELSE item.name
          isFolder == Contains(Lower(item.class), folderMarker)
          me == TreeItem(item.name, full_name,
                         IF isFolder THEN "folder" ELSE "job")
          sub == IF isFolder
                 THEN CollectJobsRecursive(srv, fail, full_name, max_depth,
                                           current_depth + 1)
                 ELSE NoWalk
          rest == CollectItems(srv, fail, path, Tail(items),
                               max_depth, current_depth)
      IN  [jobs |-> <<me>> \o rest.jobs \o sub.jobs,
           reqs |-> sub.reqs \o rest.reqs,
           raised |-> FALSE]

\* the loop over the listed items: each is appended, a folder is followed
\* by the result of the recursive call on it
CollectItems(srv, fail, path, items, max_depth, current_depth) ==
    IF items = <<>> THEN NoWalk
    ELSE
      LET item == Head(items)
          full_name == IF path # <<>> THEN path \o <<"/">> \o item.name
                       ELSE item.name
          isFolder == Contains(Lower(item.class), folderMarker)
          me == TreeItem(item.name, full_name,
                         IF isFolder THEN "folder" ELSE "job")
          sub == IF isFolder
                 THEN CollectJobsRecursive(srv, fail, full_name, max_depth,
                                           current_depth + 1)
                 ELSE NoWalk
      IN  IF sub.raised
          THEN [jobs |-> <<>>, reqs |-> sub.reqs, raised |-> TRUE]
          ELSE LET rest == CollectItems(srv, fail, path, Tail(items),
                                        max_depth, current_depth)
               IN  [jobs |-> <<me>> \o sub.jobs \o rest.jobs,
                    reqs |-> sub.reqs \o rest.reqs,
                    raised |-> rest.raised]

\* mutant: the except clause is missing, a failed fetch raises
CollectJobsNoCatch(srv, fail, path, max_depth, current_depth) ==
    IF current_depth >= max_depth THEN NoWalk
    ELSE
      LET resp == ServerResponse(srv, fail, path)
          r == CollectItems(srv, fail, path, resp.jobs, max_depth, current_depth)
      IN  IF resp.status # "ok"
          THEN [jobs |-> <<>>, reqs |-> <<WalkRequest(path)>>, raised |-> TRUE]
          ELSE [jobs |-> r.jobs, reqs |-> <<WalkRequest(path)>> \o r.reqs,
                raised |-> r.raised]

\* mutant: the depth test is off by one (>)
CollectJobsDepthOff(srv, fail, path, max_depth, current_depth) ==
    IF current_depth > max_depth THEN NoWalk
    ELSE
      LET resp == ServerResponse(srv, fail, path)
          r == CollectItems(srv, fail, path, resp.jobs, max_depth, current_depth)
      IN  IF resp.status # "ok" \/ r.raised
          THEN [jobs |-> <<>>, reqs |-> <<WalkRequest(path)>> \o r.reqs,
                raised |-> FALSE]
          ELSE [jobs |-> r.jobs, reqs |-> <<WalkRequest(path)>> \o r.reqs,
                raised |-> FALSE]

\* _collect_jobs_recursive: nothing at the depth bound; else one fetch, and
\* any exception of the fetch or of the loop ends in an empty list
CollectJobsRecursive(srv, fail, path, max_depth, current_depth) ==
    IF current_depth >= max_depth THEN NoWalk
    ELSE
      LET resp == ServerResponse(srv, fail, path)
          r == CollectItems(srv, fail, path, resp.jobs, max_depth, current_depth)
      IN  IF resp.status # "ok" \/ r.raised
          THEN [jobs |-> <<>>, reqs |-> <<WalkRequest(path)>> \o r.reqs,
                raised |-> FALSE]
          ELSE [jobs |-> r.jobs, reqs |-> <<WalkRequest(path)>> \o r.reqs,
                raised |-> FALSE]

\* the fetches that may fail during a walk: at most MaxFail of those a walk
\* to depth MaxDepth makes
FailChoices(srv) ==
    LET reqs == CollectJobsRecursive(srv, {}, <<>>, MaxDepth, 0).reqs
        paths == {reqs[i].path : i \in DOMAIN reqs}
    IN  {f \in SUBSET paths : Cardinality(f) <= MaxFail}

-----------------------------------------------------------------------------
(* Inputs of the tools *)

pStar   == <<"*">>
pBStar  == <<"b","*">>
pBUpper == <<"B","-","?">>
pLibBA  == <<"l","i","b","/","b","-","a">>
pB      == <<"b">>
nZZ     == <<"z","z">>

Patterns == {pStar, pBStar, pBUpper, pLibBA, nX}
JobTypes == {"job", "folder", "all"}
JobNames == {nBA, pBUpper, pLibBA, pB, nZZ}

Returned(v) == [kind |-> "return", value |-> v]
Raised(e) == [kind |-> "raise", error |-> e]

\* raise of the HTTPError that raise_for_status made of a response
RaisedHTTP(status) == [kind |-> "raise", error |-> "HTTPError", status |-> status]

-----------------------------------------------------------------------------
(* search_jobs *)

IsJob(it) == it.type = "job"
IsFolder(it) == it.type = "folder"

\* mutant: the pattern is matched as written, the case of letters counting
SearchJobsFilterCaseSensitive(all_items, pattern, job_type) ==
    LET filtered_items ==
            IF job_type = "job" THEN SelectSeq(all_items, IsJob)
            ELSE IF job_type = "folder" THEN SelectSeq(all_items, IsFolder)
            ELSE all_items
        Matching(it) == \/ FnMatch(it.name, pattern)
                        \/ FnMatch(it.full_name, pattern)
    IN  SelectSeq(filtered_items, Matching)

\* the filter by type, then by pattern on name or full_name, both lowered
SearchJobsFilter(all_items, pattern, job_type) ==
    LET filtered_items ==
            IF job_type = "job" THEN SelectSeq(all_items, IsJob)
            ELSE IF job_type = "folder" THEN SelectSeq(all_items, IsFolder)
            ELSE all_items
        Matching(it) == \/ FnMatch(Lower(it.name), Lower(pattern))
                        \/ FnMatch(Lower(it.full_name), Lower(pattern))
    IN  SelectSeq(filtered_items, Matching)

\* search_jobs(pattern, job_type, max_depth) against srv with the fetches
\* of fail failing: the walk it made and what it returned or raised
SearchJobsCall(srv, fail, pattern, job_type, max_depth) ==
    LET w == CollectJobsRecursive(srv, fail, <<>>, max_depth, 0)
    IN  [walk |-> w,
         result |-> IF w.raised THEN Raised("Exception")
                    ELSE Returned(SearchJobsFilter(w.jobs, pattern, job_type))]

SearchJobs ==
    /\ pc = "idle"
    /\ \E fail \in FailChoices(server), pattern \in Patterns,
          job_type \in JobTypes, max_depth \in 0..MaxDepth :
         \E c \in {SearchJobsCall(server, fail, pattern, job_type, max_depth)} :
             /\ op' = "search_jobs"
             /\ args' = [pattern |-> pattern, job_type |-> job_type,
                         max_depth |-> max_depth]
             /\ env' = [fail |-> fail]
             /\ walk' = c.walk
             /\ http' = c.walk.reqs
             /\ result' = c.result
    /\ pc' = "done"
    /\ UNCHANGED <<server, local, cacheVars, workerVars>>

-----------------------------------------------------------------------------
(* list_jobs *)

\* the top-level branch of list_jobs: one item per listed entry, folders
\* only when asked for
RECURSIVE TopLevelItems(_, _)
TopLevelItems(jobs, include_folders) ==
    IF jobs = <<>> THEN <<>>
    ELSE LET job == Head(jobs)
             item_type == IF Contains(Lower(job.class), folderMarker)
                          THEN "folder" ELSE "job"
         IN  (IF item_type = "job" \/ (item_type = "folder" /\ include_folders)
              THEN <<TreeItem(job.name, job.name, item_type)>> ELSE <<>>)
             \o TopLevelItems(Tail(jobs), include_folders)

ListJobsCall(srv, fail, recursive, max_depth, include_folders) ==
    IF recursive
    THEN LET w == CollectJobsRecursive(srv, fail, <<>>, max_depth, 0)
         IN  [walk |-> w, http |-> w.reqs,
              result |-> IF w.raised THEN Raised("Exception")
                         ELSE Returned(IF include_folders THEN w.jobs
                                       ELSE SelectSeq(w.jobs, IsJob))]
    ELSE LET resp == ServerResponse(srv, fail, <<>>)
         IN  [walk |-> NoWalk, http |-> <<WalkRequest(<<>>)>>,
              result |-> IF resp.status # "ok" THEN Raised("RequestException")
                         ELSE Returned(TopLevelItems(resp.jobs, include_folders))]

ListJobs ==
    /\ pc = "idle"
    /\ \E fail \in FailChoices(server), recursive \in BOOLEAN,
          include_folders \in BOOLEAN, max_depth \in 0..MaxDepth :
         \E c \in {ListJobsCall(server, fail, recursive, max_depth,
                                 include_folders)} :
             /\ op' = "list_jobs"
             /\ args' = [recursive |-> recursive, max_depth |-> max_depth,
                         include_folders |-> include_folders]
             /\ env' = [fail |-> fail]
             /\ walk' = c.walk
             /\ http' = c.http
             /\ result' = c.result
    /\ pc' = "done"
    /\ UNCHANGED <<server, local, cacheVars, workerVars>>

-----------------------------------------------------------------------------
(* get_job_info *)

FallbackDepth == 10     \* _collect_jobs_recursive("", context, 10)

\* what the direct lookup may end in
DirectResponses ==
    { [kind |-> "http", status |-> st] : st \in {200, 404, 500} }
    \cup { [kind |-> "transport", status |-> 0] }

Suggestion(text, arg) == [text |-> text, arg |-> arg]

\* mutant: the fallback keeps wildcard matches only
FallbackMatchesWildcardOnly(job, job_name) ==
    \/ FnMatch(Lower(job.name), Lower(job_name))
    \/ FnMatch(Lower(job.full_name), Lower(job_name))

\* the test of the fallback: wildcard match or substring, on name or full_name
FallbackMatches(job, job_name) ==
    \/ FnMatch(Lower(job.name), Lower(job_name))
    \/ FnMatch(Lower(job.full_name), Lower(job_name))
    \/ Contains(Lower(job.name), Lower(job_name))
    \/ Contains(Lower(job.full_name), Lower(job_name))

\* jobs_only, then matching_jobs
FallbackFilter(all_items, job_name) ==
    LET Matching(job) == FallbackMatches(job, job_name)
    IN  SelectSeq(SelectSeq(all_items, IsJob), Matching)

\* JobInfoResponse(...).model_dump(): every field, None where not given
JobInfoResponse(success, job_info, search_results, message, suggestions) ==
    [success |-> success, job_info |-> job_info,
     search_results |-> search_results, message |-> message,
     suggestions |-> suggestions]

\* the response of the fallback once matching_jobs is known
FallbackResponse(matching_jobs, job_name) ==
    IF matching_jobs # <<>>
    THEN JobInfoResponse(FALSE, PyNone, PyList(matching_jobs),
            "not found directly, but found similar jobs",
            PyList(<< Suggestion("Use exact path: get_job_info",
                                 matching_jobs[1].full_name),
                      Suggestion("Or try search_jobs() for more search options",
                                 <<>>) >>))
    ELSE JobInfoResponse(FALSE, PyNone, PyNone,
            "not found and no similar jobs found",
            PyList(<< Suggestion("Try: search_jobs",
                                 <<"*">> \o job_name \o <<"*">>),
                      Suggestion("Or: list_jobs(recursive=True) to see all available jobs",
                                 <<>>) >>))

\* the direct lookup: nested when the name holds a '/', flat else
DirectRequest(job_name) ==
    Request(mGET, IF Contains(job_name, <<"/">>) THEN "nested" ELSE "flat",
            job_name, "api/json", None)

\* mutant: a 404 starts the fallback whatever auto_search is
GetJobInfoCallAlwaysSearch(srv, fail, job_name, auto_search, direct) ==
    IF direct.kind = "http" /\ direct.status = 200
    THEN [walk |-> NoWalk, walked |-> FALSE, http |-> <<DirectRequest(job_name)>>,
          result |-> Returned(JobInfoResponse(TRUE, [name |-> job_name],
                                              PyNone, "Found job directly", PyNone))]
    ELSE IF direct.kind = "http" /\ direct.status = 404
    THEN LET w == CollectJobsRecursive(srv, fail, <<>>, FallbackDepth, 0)
         IN  [walk |-> w, walked |-> TRUE,
              http |-> <<DirectRequest(job_name)>> \o w.reqs,
              result |-> Returned(FallbackResponse(
                                  FallbackFilter(w.jobs, job_name), job_name))]
    ELSE [walk |-> NoWalk, walked |-> FALSE, http |-> <<DirectRequest(job_name)>>,
          result |-> IF direct.kind = "http" THEN RaisedHTTP(direct.status)
                     ELSE Raised("ConnectionError")]

\* get_job_info(job_name, auto_search) when the direct lookup ends in direct
\* and the fetches of fail fail during the fallback walk
GetJobInfoCall(srv, fail, job_name, auto_search, direct) ==
    IF direct.kind = "http" /\ direct.status = 200
    THEN [walk |-> NoWalk, walked |-> FALSE, http |-> <<DirectRequest(job_name)>>,
          result |-> Returned(JobInfoResponse(TRUE, [name |-> job_name],
                                              PyNone, "Found job directly", PyNone))]
    ELSE IF direct.kind = "http" /\ direct.status = 404 /\ auto_search
    THEN LET w == CollectJobsRecursive(srv, fail, <<>>, FallbackDepth, 0)
         IN  [walk |-> w, walked |-> TRUE,
              http |-> <<DirectRequest(job_name)>> \o w.reqs,
              result |-> IF w.raised THEN Raised("Exception")
                         ELSE Returned(FallbackResponse(
                                  FallbackFilter(w.jobs, job_name), job_name))]
    ELSE [walk |-> NoWalk, walked |-> FALSE, http |-> <<DirectRequest(job_name)>>,
          result |-> IF direct.kind = "http" THEN RaisedHTTP(direct.status)
                     ELSE Raised("ConnectionError")]

GetJobInfo ==
    /\ pc = "idle"
    /\ \E fail \in FailChoices(server), job_name \in JobNames,
          auto_search \in BOOLEAN, direct \in DirectResponses :
         \E c \in {GetJobInfoCall(server, fail, job_name, auto_search, direct)} :
             /\ op' = "get_job_info"
             /\ args' = [job_name |-> job_name, auto_search |-> auto_search]
             /\ env' = [fail |-> fail, direct |-> direct, walked |-> c.walked]
             /\ walk' = c.walk
             /\ http' = c.http
             /\ result' = c.result
    /\ pc' = "done"
    /\ UNCHANGED <<server, local, cacheVars, workerVars>>

-----------------------------------------------------------------------------
(* Parameter values and process_jenkins_parameters *)

EmptyDict == [k \in {} |-> PyNone]

\* the characters quote() leaves alone: letters, digits and "_.-~"
Unreserved ==
    {UpperChars[i] : i \in DOMAIN UpperChars}
    \cup {LowerChars[i] : i \in DOMAIN LowerChars}
    \cup {"0","1","2","3","4","5","6","7","8","9","_",".","-","~"}

\* the escapes of the other characters of the model
Escapes == (" " :> <<"%","2","0">>) @@ ("+" :> <<"%","2","B">>)
           @@ ("%" :> <<"%","2","5">>) @@ ("/" :> <<"%","2","F">>)
           @@ ("," :> <<"%","2","C">>)

\* quote(part, safe='')
RECURSIVE Quote(_)
Quote(part) ==
    IF part = <<>> THEN <<>>
    ELSE (IF Head(part) \in Unreserved THEN <<Head(part)>> ELSE Escapes[Head(part)])
         \o Quote(Tail(part))

\* quote_plus(s): quote(s, safe=' ') with every space turned into '+'
RECURSIVE QuotePlus(_)
QuotePlus(s) ==
    IF s = <<>> THEN <<>>
    ELSE (IF Head(s) = " " THEN <<"+">>
          ELSE IF Head(s) \in Unreserved THEN <<Head(s)>>
          ELSE Escapes[Head(s)])
         \o QuotePlus(Tail(s))

\* urlencode(processed_params): every value by quote_plus, under its name
\* (the names of the model are identifiers, which quote_plus leaves as they
\* are; the order of the pairs in the body is left out)
Urlencode(processed_params) ==
    [key \in DOMAIN processed_params |-> QuotePlus(processed_params[key])]

Digits == <<"0","1","2","3","4","5","6","7","8","9">>

RECURSIVE NatToStr(_)
NatToStr(n) ==
    IF n < 10 THEN <<Digits[n + 1]>>
    ELSE NatToStr(n \div 10) \o <<Digits[(n % 10) + 1]>>

\* str(value) of a scalar
Str(value) ==
    CASE value.t = "str" -> value.v
      [] value.t = "bool" -> IF value.v THEN <<"T","r","u","e">>
                             ELSE <<"F","a","l","s","e">>
      [] value.t = "int" -> IF value.v < 0 THEN <<"-">> \o NatToStr(0 - value.v)
                            ELSE NatToStr(value.v)
      [] value.t = "none" -> <<"N","o","n","e">>

\* ','.join(strs)
RECURSIVE Join(_)
Join(strs) ==
    IF strs = <<>> THEN <<>>
    ELSE IF Len(strs) = 1 THEN Head(strs)
    ELSE Head(strs) \o <<",">> \o Join(Tail(strs))

\* mutant: a boolean goes through str() like any other scalar
ProcessJenkinsParametersBoolAsStr(params) ==
    [key \in DOMAIN params |->
        LET value == params[key]
        IN  IF value.t = "list"
            THEN Join([i \in DOMAIN value.v |-> Str(value.v[i])])
            ELSE Str(value)]

\* process_jenkins_parameters: the same names, every value a string
ProcessJenkinsParameters(params) ==
    [key \in DOMAIN params |->
        LET value == params[key]
        IN  IF value.t = "list"
            THEN Join([i \in DOMAIN value.v |-> Str(value.v[i])])
            ELSE IF value.t = "bool" THEN Lower(Str(value))
            ELSE Str(value)]

\* bool(value)
Truthy(value) ==
    CASE value.t = "none" -> FALSE
      [] value.t = "bool" -> value.v
      [] value.t = "int" -> value.v # 0
      [] value.t = "str" -> value.v # <<>>
      [] value.t = "list" -> value.v # <<>>
      [] value.t = "dict" -> DOMAIN value.v # {}

\* params.get('args', {}).get('params', params) if params else None
JenkinsParams(params) ==
    IF ~Truthy(params) THEN [raised |-> FALSE, value |-> PyNone]
    ELSE LET a == IF "args" \in DOMAIN params.v THEN params.v["args"]
                  ELSE PyDict(EmptyDict)
         IN  IF a.t # "dict" THEN [raised |-> TRUE, value |-> PyNone]
             ELSE IF "params" \in DOMAIN a.v
                  THEN [raised |-> FALSE, value |-> a.v["params"]]
                  ELSE [raised |-> FALSE, value |-> params]

sA == <<"a">>
sB == <<"b">>

ParamChoices ==
    { PyNone,
      PyDict(EmptyDict),
      PyDict([k \in {"flag", "tags", "n"} |->
                 CASE k = "flag" -> PyBool(TRUE)
                   [] k = "tags" -> PyList(<<PyStr(sA), PyStr(sB)>>)
                   [] k = "n" -> PyInt(5)]),
      PyDict([k \in {"flag", "tags", "msg", "opt"} |->
                 CASE k = "flag" -> PyBool(FALSE)
                   [] k = "tags" -> PyList(<<PyBool(TRUE), PyInt(5)>>)
                   [] k = "msg" -> PyStr(<<"a", " ", "b">>)
                   [] k = "opt" -> PyNone]),
      PyDict([k \in {"args"} |->
                 PyDict([j \in {"params"} |->
                            PyDict([i \in {"n"} |-> PyInt(12)])])]),
      PyDict([k \in {"args"} |-> PyStr(sA)]) }

-----------------------------------------------------------------------------
(* trigger_job and search_and_trigger, step by step *)

\* what the POST may end in: the status of the response that
\* requests.request hands back, or no response at all
PostResponses ==
    { [kind |-> "http", status |-> st] : st \in {201, 304, 403, 404, 500} }
    \cup { [kind |-> "transport", status |-> 0] }

\* response.raise_for_status() raises HTTPError
RaisesForStatus(status) == status \in 400..599

\* what trigger_job has computed before its request: the parameters to send,
\* the route by '/' in the name, the endpoint by the parameters
TriggerPlan(job_name, params) ==
    LET jp == JenkinsParams(params)
        sends == ~jp.raised /\ Truthy(jp.value)
    IN  [raised |-> jp.raised \/ (sends /\ jp.value.t # "dict"),
         job_name |-> job_name,
         route |-> IF Contains(job_name, <<"/">>) THEN "nested" ELSE "flat",
         suffix |-> IF sends THEN "buildWithParameters" ELSE "build",
         processed_params |->
             IF sends /\ jp.value.t = "dict"
             THEN PyDict(ProcessJenkinsParameters(jp.value.v)) ELSE PyNone,
         data |->
             IF sends /\ jp.value.t = "dict"
             THEN PyDict(Urlencode(ProcessJenkinsParameters(jp.value.v)))
             ELSE PyNone]

\* mutant: a failed POST is reported as triggered all the same
TriggerOutcomeLenient(plan, resp) ==
    Returned([job_name |-> plan.job_name, status |-> "Triggered",
              processed_params |-> plan.processed_params])

\* what trigger_job returns or raises once its POST has ended in resp
TriggerOutcome(plan, resp) ==
    IF resp.kind = "http" /\ ~RaisesForStatus(resp.status)
    THEN Returned([job_name |-> plan.job_name, status |-> "Triggered",
                   processed_params |-> plan.processed_params])
    ELSE IF resp.kind = "http" /\ resp.status = 404 THEN Raised("ValueError")
    ELSE IF resp.kind = "http" THEN Raised("HTTPError")
    ELSE Raised("ConnectionError")

\* get_request_context(): a context with a fresh request id, the minted-th
\* of the invocation plus one (uuid4 values are taken to be distinct)
GetRequestContext(minted) == minted + 1

\* trigger_job is invoked as a tool
TriggerJob ==
    /\ pc = "idle"
    /\ \E job_name \in JobNames, params \in ParamChoices :
         LET plan == TriggerPlan(job_name, params)
         IN  /\ op' = "trigger_job"
             /\ args' = [job_name |-> job_name, params |-> params]
             /\ local' = [caller |-> "tool", plan |-> plan, matches |-> <<>>,
                          crumb |-> None,
                          context |-> GetRequestContext(0), minted |-> 1,
                          log |-> <<>>]
             /\ pc' = IF plan.raised THEN "done"
                      ELSE IF NeedsCrumb(mPOST) THEN "crumb" ELSE "post"
             /\ result' = IF plan.raised THEN Raised("AttributeError") ELSE NoCall
    /\ env' = [fail |-> {}]
    /\ walk' = NoWalk /\ http' = <<>>
    /\ UNCHANGED <<server, cacheVars, workerVars>>

\* mutant: the first match is triggered whenever there is one
SearchAndTriggerBranchFirst(matches) ==
    IF Len(matches) = 0 THEN "none" ELSE "one"

\* the three branches of search_and_trigger on len(matches)
SearchAndTriggerBranch(matches) ==
    IF Len(matches) = 0 THEN "none"
    ELSE IF Len(matches) = 1 THEN "one"
    ELSE "many"

\* search_and_trigger is invoked: the search, and on exactly one match the
\* call of trigger_job with its full_name
SearchAndTrigger ==
    /\ pc = "idle"
    /\ \E fail \in FailChoices(server), pattern \in Patterns,
          params \in ParamChoices, max_depth \in 0..MaxDepth :
         \E c \in {SearchJobsCall(server, fail, pattern, "job", max_depth)} :
         LET matches == IF c.result.kind = "return" THEN c.result.value ELSE <<>>
             branch == IF c.result.kind = "raise" THEN "raise"
                       ELSE SearchAndTriggerBranch(matches)
             plan == TriggerPlan(matches[1].full_name, params)
             own == GetRequestContext(0)        \* of search_and_trigger
             searching == GetRequestContext(1)  \* of search_jobs
             triggering == GetRequestContext(2) \* of trigger_job
         IN  /\ op' = "search_and_trigger"
             /\ args' = [pattern |-> pattern, params |-> params,
                         max_depth |-> max_depth]
             /\ env' = [fail |-> fail]
             /\ walk' = c.walk
             /\ http' = c.walk.reqs
             /\ local' = [caller |-> "search_and_trigger",
                          plan |-> IF branch = "one" THEN plan ELSE NoCall,
                          matches |-> matches, crumb |-> None,
                          context |-> IF branch = "one" THEN triggering
                                      ELSE own,
                          minted |-> IF branch = "one" THEN 3 ELSE 2,
                          log |-> [i \in DOMAIN c.walk.reqs |-> searching]]
             /\ pc' = IF branch = "one" /\ ~plan.raised
                      THEN (IF NeedsCrumb(mPOST) THEN "crumb" ELSE "post")
                      ELSE "done"
             /\ result' =
                  CASE branch = "raise" -> c.result
                    [] branch = "none" ->
                         Returned([error |-> "No jobs found", pattern |-> pattern])
                    [] branch = "many" ->
                         Returned([error |-> "Multiple jobs match pattern",
                                   pattern |-> pattern, matches |-> matches])
                    [] branch = "one" ->
                         IF plan.raised THEN Raised("AttributeError") ELSE NoCall
    /\ UNCHANGED <<server, cacheVars, workerVars>>

CrumbRequest == Request(mGET, "crumbIssuer", <<>>, "api/json", None)

\* the request executor, before the POST: the crumb is asked of the cache
TriggerCrumb ==
    /\ pc = "crumb"
    /\ \E resp \in CrumbResponses :
         LET g == GetJenkinsCrumb(crumb_token, crumb_expires, now, resp)
         IN  /\ crumb_token' = g.token
             /\ crumb_expires' = g.expires
             /\ local' = [local EXCEPT
                            !.crumb = g.returned,
                            !.log = IF g.fetched THEN Append(@, local.context)
                                    ELSE @]
             /\ http' = IF g.fetched THEN Append(http, CrumbRequest) ELSE http
             /\ env' = IF g.fetched THEN [fail |-> env.fail, crumb_resp |-> resp]
                       ELSE env
    /\ pc' = "post"
    /\ UNCHANGED <<server, op, args, walk, result, now, workerVars>>

\* the POST is sent and ends; trigger_job returns or raises, and so does
\* search_and_trigger around it
TriggerPost ==
    /\ pc = "post"
    /\ \E resp \in PostResponses :
         LET t == TriggerOutcome(local.plan, resp)
             req == Request(mPOST, local.plan.route, local.plan.job_name,
                            local.plan.suffix, local.crumb)
         IN  /\ http' = Append(http, ("data" :> local.plan.data) @@ req)
             /\ local' = [local EXCEPT !.log = Append(@, local.context)]
             /\ result' =
                  IF local.caller = "search_and_trigger" /\ t.kind = "return"
                  THEN Returned([success |-> TRUE,
                                 matched_job |-> local.matches[1],
                                 trigger_result |-> t.value])
                  ELSE t
             /\ env' = ("post_resp" :> resp) @@ env
    /\ pc' = "done"
    /\ UNCHANGED <<server, op, args, walk, cacheVars, workerVars>>

-----------------------------------------------------------------------------
(* The request executor under concurrency: jenkins_request and             *)
(* jenkins_request_nested called by independent workers, each going        *)
(* through get_jenkins_crumb statement by statement                        *)

NoHolder == 0       \* threading.Lock(), not held

Workers == 1..MaxWorkers

Methods == {mGET, mPOST, mPUT, mDELETE, mPost}
Routes == {"nested", "flat"}

IdleWorker ==
    [pc |-> "idle", method |-> <<>>, route |-> "none", crumb |-> None,
     seen |-> NoCall, fetched |-> FALSE, blocked |-> FALSE,
     sent |-> NoCall]

\* a worker enters the executor: a mutating verb goes for the crumb first
Call(w) ==
    /\ wk[w].pc = "idle"
    /\ \E method \in Methods, route \in Routes :
         wk' = [wk EXCEPT ![w] =
                  [IdleWorker EXCEPT
                     !.pc = IF NeedsCrumb(method) THEN "lock" ELSE "send",
                     !.method = method,
                     !.route = route,
                     !.blocked = /\ NeedsCrumb(method)
                                 /\ lock # NoHolder
                                 /\ wk[lock].pc = "fetch"]]
    /\ UNCHANGED <<toolVars, cacheVars, lock, window_fetches, window_failed>>

\* mutant: the cache is entered without waiting for the lock
AcquireNoLock(w) ==
    /\ wk[w].pc = "lock"
    /\ lock' = w
    /\ wk' = [wk EXCEPT ![w].pc = "check"]
    /\ UNCHANGED <<toolVars, cacheVars, window_fetches, window_failed>>

\* with _crumb_cache["lock"]: the worker waits until the lock is free
Acquire(w) ==
    /\ wk[w].pc = "lock"
    /\ lock = NoHolder
    /\ lock' = w
    /\ wk' = [wk EXCEPT ![w].pc = "check"]
    /\ UNCHANGED <<toolVars, cacheVars, window_fetches, window_failed>>

\* the cache is tested: a valid crumb is returned and the lock released,
\* else the fetch of a new one starts
Check(w) ==
    /\ wk[w].pc = "check"
    /\ LET valid == CrumbValid(crumb_token, crumb_expires, now)
           seen == [token |-> crumb_token, expires |-> crumb_expires, now |-> now]
       IN  IF valid
           THEN /\ wk' = [wk EXCEPT ![w].pc = "send", ![w].seen = seen,
                                    ![w].crumb = crumb_token]
                /\ lock' = NoHolder
                /\ UNCHANGED <<window_fetches, window_failed>>
           ELSE /\ window_fetches < MaxFetches
                /\ wk' = [wk EXCEPT ![w].pc = "fetch", ![w].seen = seen,
                                    ![w].fetched = TRUE]
                /\ window_fetches' = window_fetches + 1
                /\ UNCHANGED <<lock, window_failed>>
    /\ UNCHANGED <<toolVars, cacheVars>>

\* the fetch ends: a crumb is cached and returned, anything else returns
\* None; the lock is released on the way out
FetchEnd(w) ==
    /\ wk[w].pc = "fetch"
    /\ \E resp \in CrumbResponses :
         \E a \in {CrumbAfterFetch(crumb_token, crumb_expires, now, resp)} :
             /\ crumb_token' = a.token
             /\ crumb_expires' = a.expires
             /\ wk' = [wk EXCEPT ![w].pc = "send", ![w].crumb = a.returned]
             /\ window_fetches' = IF a.returned # None THEN 0 ELSE window_fetches
             /\ window_failed' = IF a.returned # None THEN 0 ELSE window_failed + 1
    /\ lock' = NoHolder
    /\ UNCHANGED <<toolVars, now>>

\* if crumb: headers['Jenkins-Crumb'] = crumb
SentHeader(crumb) == IF crumb # None THEN crumb ELSE None

\* the request is sent, with the crumb header if a crumb was obtained
Send(w) ==
    /\ wk[w].pc = "send"
    /\ wk' = [wk EXCEPT ![w].pc = "done",
                        ![w].sent = [method |-> wk[w].method,
                                     route |-> wk[w].route,
                                     crumb |-> SentHeader(wk[w].crumb)]]
    /\ UNCHANGED <<toolVars, cacheVars, lock, window_fetches, window_failed>>

\* the call is over; the worker may serve the next one
Finish(w) ==
    /\ wk[w].pc = "done"
    /\ wk' = [wk EXCEPT ![w] = IdleWorker]
    /\ UNCHANGED <<toolVars, cacheVars, lock, window_fetches, window_failed>>

InitCrumb ==
    /\ server \in {CHOOSE srv \in Servers : TRUE}
    /\ pc = "idle"
    /\ op = "none" /\ args = NoCall /\ env = NoCall
    /\ walk = NoWalk /\ http = <<>> /\ result = NoCall
    /\ local = NoCall
    /\ crumb_token = None /\ crumb_expires = NoExpiry
    /\ now = 0
    /\ lock = NoHolder /\ wk = [w \in Workers |-> IdleWorker]
    /\ window_fetches = 0 /\ window_failed = 0

NextCrumb ==
    \/ \E w \in Workers : Call(w)
    \/ \E w \in Workers : Acquire(w)
    \/ \E w \in Workers : Check(w)
    \/ \E w \in Workers : FetchEnd(w)
    \/ \E w \in Workers : Send(w)
    \/ \E w \in Workers : Finish(w)
    \/ Tick

-----------------------------------------------------------------------------
(* The tool surface, one invocation at a time *)

\* the invocation has ended; the next one may start
Return ==
    /\ pc = "done"
    /\ pc' = "idle"
    /\ op' = "none" /\ args' = NoCall /\ env' = NoCall
    /\ walk' = NoWalk /\ http' = <<>> /\ result' = NoCall
    /\ local' = NoCall
    /\ UNCHANGED <<server, cacheVars, workerVars>>

Init ==
    /\ server \in Servers
    /\ pc = "idle"
    /\ op = "none" /\ args = NoCall /\ env = NoCall
    /\ walk = NoWalk /\ http = <<>> /\ result = NoCall
    /\ local = NoCall
    /\ crumb_token = None /\ crumb_expires = NoExpiry
    /\ now = 0
    /\ lock = NoHolder /\ wk = NoCall
    /\ window_fetches = 0 /\ window_failed = 0

Next ==
    \/ SearchJobs
    \/ ListJobs
    \/ GetJobInfo
    \/ Return

vars == <<server, pc, op, args, env, walk, http, result, local,
          crumb_token, crumb_expires, now,
          lock, wk, window_fetches, window_failed>>

Spec == Init /\ [][Next]_vars

NextTrigger ==
    \/ TriggerJob
    \/ SearchAndTrigger
    \/ TriggerCrumb
    \/ TriggerPost
    \/ Return

SpecTrigger == Init /\ [][NextTrigger]_vars

SpecCrumb == InitCrumb /\ [][NextCrumb]_vars

-----------------------------------------------------------------------------
(* _collect_jobs_recursive call by call (SpecWalk): the stack of the        *)
(* recursive calls in local.stack, the items appended so far in walk        *)

MaxStack == MaxDepth + 2    \* no more calls are stacked than this

\* mutant: the depth test never stops the recursion
DepthReachedNever(current_depth, max_depth) == FALSE

\* current_depth >= max_depth
DepthReached(current_depth, max_depth) == current_depth >= max_depth

\* a call of _collect_jobs_recursive that has just been entered, and one in
\* its loop with items left to go through
EnteredCall(path, current_depth) ==
    [stage |-> "enter", path |-> path, current_depth |-> current_depth,
     items |-> <<>>]

LoopingCall(call, items) == [call EXCEPT !.stage = "loop", !.items = items]

TopCall == local.stack[Len(local.stack)]

\* the top call returns to its caller, or the walk to the tool
Pop ==
    /\ local' = [local EXCEPT !.stack = SubSeq(@, 1, Len(@) - 1)]
    /\ IF Len(local.stack) = 1
       THEN pc' = "done" /\ result' = Returned(walk'.jobs)
       ELSE pc' = "walking" /\ result' = result

\* a tool calls _collect_jobs_recursive("", context, max_depth)
WalkStart ==
    /\ pc = "idle"
    /\ \E fail \in FailChoices(server), max_depth \in 0..MaxDepth :
         /\ args' = [max_depth |-> max_depth]
         /\ env' = [fail |-> fail]
    /\ op' = "_collect_jobs_recursive"
    /\ local' = [stack |-> <<EnteredCall(<<>>, 0)>>]
    /\ walk' = NoWalk
    /\ pc' = "walking"
    /\ UNCHANGED <<server, http, result, cacheVars, workerVars>>

\* the call just entered tests the depth, and below the bound fetches its
\* listing; at the bound, or when the fetch fails, it returns nothing
WalkEnter ==
    /\ pc = "walking"
    /\ TopCall.stage = "enter"
    /\ LET call == TopCall
           resp == ServerResponse(server, env.fail, call.path)
       IN  IF DepthReached(call.current_depth, args.max_depth)
           THEN walk' = walk /\ Pop
           ELSE /\ walk' = [walk EXCEPT !.reqs = Append(@, WalkRequest(call.path))]
                /\ IF resp.status # "ok" THEN Pop
                   ELSE /\ local' = [local EXCEPT
                                       !.stack[Len(local.stack)] =
                                           LoopingCall(call, resp.jobs)]
                        /\ UNCHANGED <<pc, result>>
    /\ UNCHANGED <<server, op, args, env, http, cacheVars, workerVars>>

\* one turn of the loop: the item is appended; for a folder the recursive
\* call is entered
WalkItem ==
    /\ pc = "walking"
    /\ TopCall.stage = "loop" /\ TopCall.items # <<>>
    /\ Len(local.stack) < MaxStack
    /\ LET call == TopCall
           item == Head(call.items)
           full_name == IF call.path # <<>>
                        THEN call.path \o <<"/">> \o item.name ELSE item.name
           isFolder == Contains(Lower(item.class), folderMarker)
           rest == LoopingCall(call, Tail(call.items))
       IN  /\ walk' = [walk EXCEPT !.jobs =
                         Append(@, TreeItem(item.name, full_name,
                                            IF isFolder THEN "folder" ELSE "job"))]
           /\ local' = [local EXCEPT !.stack =
                          IF isFolder
                          THEN Append(SubSeq(@, 1, Len(@) - 1), rest)
                               \o <<EnteredCall(full_name, call.current_depth + 1)>>
                          ELSE Append(SubSeq(@, 1, Len(@) - 1), rest)]
    /\ UNCHANGED <<server, pc, op, args, env, http, result, cacheVars, workerVars>>

\* the loop is over: return jobs
WalkReturn ==
    /\ pc = "walking"
    /\ TopCall.stage = "loop" /\ TopCall.items = <<>>
    /\ walk' = walk
    /\ Pop
    /\ UNCHANGED <<server, op, args, env, http, cacheVars, workerVars>>

WalkStep == WalkEnter \/ WalkItem \/ WalkReturn

NextWalk ==
    \/ WalkStart
    \/ WalkEnter
    \/ WalkItem
    \/ WalkReturn
    \/ Return

\* a call that was entered runs on: each fetch returns or fails, each
\* statement is executed
SpecWalk == Init /\ [][NextWalk]_vars /\ WF_vars(WalkStep)

-----------------------------------------------------------------------------
(* The URLs of the job-scoped requests (SpecUrl) *)

MaxSegments == 3    \* job paths have 1..MaxSegments segments

\* JENKINS_URL
BaseUrl == <<"h","t","t","p",":","/","/","j">>

sJobSep == <<"/","j","o","b","/">>

\* '/job/'.join(parts)
RECURSIVE JoinJob(_)
JoinJob(parts) ==
    IF parts = <<>> THEN <<>>
    ELSE IF Len(parts) = 1 THEN Head(parts)
    ELSE Head(parts) \o sJobSep \o JoinJob(Tail(parts))

\* mutant: the segments are joined and the whole is quoted with safe='/'
EncodePathWhole(job_path) == job_path

\* encoded_path of jenkins_request_nested
EncodePath(job_path) ==
    LET path_parts == Split(job_path)
        encoded_parts == [i \in DOMAIN path_parts |-> Quote(path_parts[i])]
    IN  JoinJob(encoded_parts)

\* url of jenkins_request_nested
NestedUrl(job_path, endpoint_suffix) ==
    BaseUrl \o <<"/","j","o","b","/">> \o EncodePath(job_path)
            \o <<"/">> \o endpoint_suffix

\* url of jenkins_request for a job-scoped endpoint
FlatUrl(endpoint) == BaseUrl \o <<"/","j","o","b","/">> \o endpoint

sBuild   == <<"b","u","i","l","d">>
sApiJson == <<"a","p","i","/","j","s","o","n">>
sOneApi  == <<"1","/">> \o sApiJson
sOneLog  == <<"1","/","l","o","g","T","e","x","t">>

\* the job-scoped operations: the suffix each asks for, and whether it
\* takes the nested route whatever the name
JobOps ==
    { [name |-> "trigger_job", suffix |-> sBuild, nested |-> FALSE],
      [name |-> "get_job_info", suffix |-> sApiJson, nested |-> FALSE],
      [name |-> "get_build_status", suffix |-> sOneApi, nested |-> FALSE],
      [name |-> "get_console_log", suffix |-> sOneLog, nested |-> FALSE],
      [name |-> "get_folder_info", suffix |-> sApiJson, nested |-> TRUE],
      [name |-> "_collect_jobs_recursive", suffix |-> sApiJson, nested |-> TRUE] }

\* the names a segment may have: plain, 'job' itself, with a space, a plus
SegmentNames == { <<"a">>, <<"j","o","b">>, <<"a"," ","b">>, <<"a","+">> }

RECURSIVE JoinSlash(_)
JoinSlash(parts) ==
    IF parts = <<>> THEN <<>>
    ELSE IF Len(parts) = 1 THEN Head(parts)
    ELSE Head(parts) \o <<"/">> \o JoinSlash(Tail(parts))

JobPaths ==
    UNION { { JoinSlash(segs) : segs \in [1..n -> SegmentNames] } :
              n \in 1..MaxSegments }

\* the request of a job-scoped operation for job_name: nested when the
\* operation always is or the name holds a '/', flat else
JobUrlCall(job_op, job_name) ==
    IF job_op.nested \/ Contains(job_name, <<"/">>)
    THEN [route |-> "nested", encoded_path |-> EncodePath(job_name),
          url |-> NestedUrl(job_name, job_op.suffix)]
    ELSE [route |-> "flat", encoded_path |-> <<>>,
          url |-> FlatUrl(job_name \o <<"/">> \o job_op.suffix)]

\* a job-scoped operation builds the URL of its request
JobUrl ==
    /\ pc = "idle"
    /\ \E job_op \in JobOps, job_name \in JobPaths :
         /\ op' = job_op.name
         /\ args' = [job_name |-> job_name, suffix |-> job_op.suffix]
         /\ result' = Returned(JobUrlCall(job_op, job_name))
    /\ pc' = "done"
    /\ UNCHANGED <<server, env, walk, http, local, cacheVars, workerVars>>

NextUrl ==
    \/ JobUrl
    \/ Return

SpecUrl == InitCrumb /\ [][NextUrl]_vars

-----------------------------------------------------------------------------
(* Properties of the tree walk and of the tools built on it (Spec) *)

\* a finished call that walked the tree, and the depth bound it gave the walk
WalkDone ==
    /\ pc = "done"
    /\ \/ op = "search_jobs"
       \/ (op = "list_jobs" /\ args.recursive)
       \/ (op = "get_job_info" /\ env.walked)

WalkBound == IF op = "get_job_info" THEN FallbackDepth ELSE args.max_depth

NumSegments(path) == Len(Segments(path))

ChildPath(path, name) == IF path # <<>> THEN path \o <<"/">> \o name ELSE name

\* path is the top level or a container above full_name
IsAncestor(path, full_name) ==
    \/ path = <<>>
    \/ /\ Len(path) < Len(full_name)
       /\ SubSeq(full_name, 1, Len(path)) = path
       /\ full_name[Len(path) + 1] = "/"

\* the k-th smallest index of a set of indices
Kth(Q, k) == CHOOSE i \in Q : Cardinality({j \in Q : j < i}) = k - 1

\* res is the subsequence of items at the indices Q, in the order of items
IsSubsequenceAt(res, items, Q) ==
    /\ Len(res) = Cardinality(Q)
    /\ \A k \in DOMAIN res : res[k] = items[Kth(Q, k)]

\* C6: a walk with max_depth = 0 returns nothing and sends nothing; a walk
\* with max_depth = N fetches no listing of a container at depth N, lists
\* such a container all the same (every entry of a fetched listing is
\* listed, a folder as a folder) without an error, and returns no item whose
\* full_name has more than N segments.
C6_DepthBound ==
    WalkDone =>
      LET N == WalkBound
      IN  /\ ~walk.raised
          /\ (N = 0 => walk.jobs = <<>> /\ walk.reqs = <<>>)
          /\ \A i \in DOMAIN walk.reqs : NumSegments(walk.reqs[i].path) < N
          /\ \A j \in DOMAIN walk.jobs : NumSegments(walk.jobs[j].full_name) <= N
          /\ \A i \in DOMAIN walk.reqs :
               LET path == walk.reqs[i].path
                   resp == ServerResponse(server, env.fail, path)
               IN  \A k \in DOMAIN resp.jobs :
                     \E j \in DOMAIN walk.jobs :
                        /\ walk.jobs[j].name = resp.jobs[k].name
                        /\ walk.jobs[j].full_name = ChildPath(path, resp.jobs[k].name)
                        /\ (Contains(Upper(resp.jobs[k].class), Upper(folderMarker))
                              => walk.jobs[j].type = "folder")

\* a walk to depth 2 listed a folder at depth 2 that holds items on the
\* remote, and did not fetch them
C6_Witness ==
    /\ WalkDone
    /\ WalkBound = 2
    /\ \E j \in DOMAIN walk.jobs :
         /\ walk.jobs[j].type = "folder"
         /\ NumSegments(walk.jobs[j].full_name) = 2
         /\ ServerResponse(server, {}, walk.jobs[j].full_name).jobs # <<>>
         /\ \A i \in DOMAIN walk.reqs : walk.reqs[i].path # walk.jobs[j].full_name

\* C7: the walk returns normally whatever fetch fails, and returns the items
\* of the walk without failures, in the same order, less those below a
\* container whose fetch failed: the failed container's own item and the
\* items of every other subtree are there.
C7_WalkNeverFails ==
    WalkDone =>
      LET clean == CollectJobsRecursive(server, {}, <<>>, WalkBound, 0).jobs
          Q == {i \in DOMAIN clean :
                  \A path \in env.fail : ~IsAncestor(path, clean[i].full_name)}
      IN  /\ ~walk.raised
          /\ result.kind = "return"
          /\ IsSubsequenceAt(walk.jobs, clean, Q)

\* the fetch of a listed folder that holds items failed, and the walk
\* returned the folder's item and an item found after it
C7_Witness ==
    /\ WalkDone
    /\ \E path \in env.fail :
         /\ path # <<>>
         /\ \E i \in DOMAIN walk.reqs : walk.reqs[i].path = path
         /\ ServerResponse(server, {}, path).jobs # <<>>
         /\ \E j \in DOMAIN walk.jobs :
              /\ walk.jobs[j].full_name = path
              /\ j < Len(walk.jobs)
              /\ \A k \in DOMAIN walk.jobs : ~IsAncestor(path, walk.jobs[k].full_name)

\* the item matches the pattern as a wildcard, the case of letters aside,
\* on its name or on its full path
MatchesWildcard(it, pattern) ==
    \/ FnMatch(Upper(it.name), Upper(pattern))
    \/ FnMatch(Upper(it.full_name), Upper(pattern))

\* the item holds the text, the case of letters aside, in its name or in
\* its full path
HoldsText(it, text) ==
    \/ Contains(Upper(it.name), Upper(text))
    \/ Contains(Upper(it.full_name), Upper(text))

HasKind(it, kind) == kind = "all" \/ it.type = kind

\* C8: search_jobs returns the items of its walk that have the requested
\* kind and match the pattern on name or full path whatever the case of the
\* letters: all of them, no others, each once, in the order of the walk; a
\* folder that matches is not returned when the kind is job.
C8_SearchExact ==
    (pc = "done" /\ op = "search_jobs") =>
      LET Q == {i \in DOMAIN walk.jobs :
                  /\ HasKind(walk.jobs[i], args.job_type)
                  /\ MatchesWildcard(walk.jobs[i], args.pattern)}
      IN  /\ result.kind = "return"
          /\ IsSubsequenceAt(result.value, walk.jobs, Q)
          /\ (args.job_type = "job" =>
                \A k \in DOMAIN result.value : result.value[k].type # "folder")

\* a search for jobs returned two jobs, one matching only when the case is
\* ignored, and left out a folder that matches the pattern
C8_Witness ==
    /\ pc = "done" /\ op = "search_jobs"
    /\ args.job_type = "job"
    /\ result.kind = "return"
    /\ Len(result.value) >= 2
    /\ \E k \in DOMAIN result.value :
         /\ ~FnMatch(result.value[k].name, args.pattern)
         /\ ~FnMatch(result.value[k].full_name, args.pattern)
    /\ \E i \in DOMAIN walk.jobs :
         /\ walk.jobs[i].type = "folder"
         /\ MatchesWildcard(walk.jobs[i], args.pattern)

\* the direct lookup of get_job_info ended in a 404 with auto_search on
FallbackTaken ==
    /\ pc = "done" /\ op = "get_job_info"
    /\ env.direct.kind = "http" /\ env.direct.status = 404
    /\ args.auto_search

\* the items of the fallback walk that are jobs and match the queried name
FallbackHits ==
    {i \in DOMAIN walk.jobs :
        /\ walk.jobs[i].type = "job"
        /\ \/ MatchesWildcard(walk.jobs[i], args.job_name)
           \/ HoldsText(walk.jobs[i], args.job_name)}

\* C9: after a 404 with auto_search on, the tree is walked from the top
\* (every listed folder above the bound of the walk is asked for its
\* items), and when some job of the walk matches the queried name as a
\* wildcard pattern or holds it as a substring, the case of letters aside,
\* the call returns a miss whose search_results are exactly these jobs, in
\* the order of the walk, no folder among them, and whose first suggestion
\* names the full path of the first of them.
C9_FallbackExact ==
    FallbackTaken =>
      /\ env.walked
      /\ walk.reqs # <<>> /\ walk.reqs[1] = WalkRequest(<<>>)
      /\ \A j \in DOMAIN walk.jobs :
           (walk.jobs[j].type = "folder"
              /\ NumSegments(walk.jobs[j].full_name) < FallbackDepth)
           => \E i \in DOMAIN walk.reqs :
                 walk.reqs[i] = WalkRequest(walk.jobs[j].full_name)
      /\ result.kind = "return"
      /\ FallbackHits # {} =>
           /\ result.value.success = FALSE
           /\ result.value.search_results.t = "list"
           /\ IsSubsequenceAt(result.value.search_results.v, walk.jobs, FallbackHits)
           /\ \A k \in DOMAIN result.value.search_results.v :
                result.value.search_results.v[k].type = "job"
           /\ result.value.suggestions.t = "list"
           /\ result.value.suggestions.v[1] =
                Suggestion("Use exact path: get_job_info",
                           walk.jobs[Kth(FallbackHits, 1)].full_name)

\* the fallback returned two jobs, the first in a folder, for a name that is
\* no wildcard match of either but a substring of both, and left out a
\* folder holding the name
C9_Witness ==
    /\ FallbackTaken
    /\ result.kind = "return"
    /\ result.value.search_results.t = "list"
    /\ Len(result.value.search_results.v) >= 2
    /\ NumSegments(result.value.search_results.v[1].full_name) >= 2
    /\ \A k \in DOMAIN result.value.search_results.v :
         ~MatchesWildcard(result.value.search_results.v[k], args.job_name)
    /\ \E i \in DOMAIN walk.jobs :
         /\ walk.jobs[i].type = "folder"
         /\ HoldsText(walk.jobs[i], args.job_name)

\* C10: after a 404 with auto_search on and no job of the tree matching,
\* get_job_info returns a miss with a non-empty list of suggestions and an
\* empty sequence of search_results.
C10_EmptySearchResults ==
    (FallbackTaken /\ FallbackHits = {}) =>
      /\ result.kind = "return"
      /\ result.value.success = FALSE
      /\ result.value.suggestions.t = "list"
      /\ result.value.suggestions.v # <<>>
      /\ result.value.search_results = PyList(<<>>)

-----------------------------------------------------------------------------
(* Properties of search_and_trigger (SpecTrigger) *)

\* the items of the walk that the job-kind search for the pattern matches
SearchHits ==
    {i \in DOMAIN walk.jobs :
        /\ walk.jobs[i].type = "job"
        /\ MatchesWildcard(walk.jobs[i], args.pattern)}

\* the trigger requests sent so far
TriggerRequests ==
    {i \in DOMAIN http :
        /\ Upper(http[i].method) = mPOST
        /\ http[i].suffix \in {"build", "buildWithParameters"}}

\* C1: search_and_trigger sends a trigger request only when the job-kind
\* search matched exactly one item, and sends it for the full path of that
\* item; with no match it returns "No jobs found", with two or more it
\* returns "Multiple jobs match pattern" with all the matches, and in these
\* two cases it sends no trigger request.
C1_ExactlyOneTriggers ==
    op = "search_and_trigger" =>
      /\ pc \in {"crumb", "post"} => Cardinality(SearchHits) = 1
      /\ TriggerRequests # {} =>
           /\ Cardinality(SearchHits) = 1
           /\ \A i \in TriggerRequests :
                http[i].path = walk.jobs[Kth(SearchHits, 1)].full_name
      /\ (pc = "done" /\ SearchHits = {}) =>
           /\ result.kind = "return"
           /\ result.value.error = "No jobs found"
           /\ TriggerRequests = {}
      /\ (pc = "done" /\ Cardinality(SearchHits) >= 2) =>
           /\ result.kind = "return"
           /\ result.value.error = "Multiple jobs match pattern"
           /\ IsSubsequenceAt(result.value.matches, walk.jobs, SearchHits)
           /\ TriggerRequests = {}

\* a search with one match, a job in a folder, ended in one trigger request
\* for it while the walk listed other jobs too
C1_Witness ==
    /\ op = "search_and_trigger" /\ pc = "done"
    /\ Cardinality(SearchHits) = 1
    /\ Cardinality(TriggerRequests) = 1
    /\ NumSegments(walk.jobs[Kth(SearchHits, 1)].full_name) >= 2
    /\ \E i \in DOMAIN walk.jobs : walk.jobs[i].type = "job" /\ i \notin SearchHits
    /\ result.kind = "return"

-----------------------------------------------------------------------------
(* Properties of the crumb cache and of the request executor (SpecCrumb) *)

\* a cache holding token until expires is good at time t
Fresh(token, expires, t) ==
    token # None /\ expires # NoExpiry /\ t < expires

\* worker w leaves the test of the cache, ends its fetch, in this step
Checks(w) == wk[w].pc = "check" /\ wk'[w].pc # "check"
FetchEnds(w) == wk[w].pc = "fetch" /\ wk'[w].pc # "fetch"

Fetching == {w \in Workers : wk[w].pc = "fetch"}

\* w is past get_jenkins_crumb in a call that went through it
PastCrumb(w) == wk[w].pc \in {"send", "done"} /\ wk[w].seen # NoCall

\* C2 as stated: between two successful fetches at most one fetch is made,
\* and a caller that arrived while another was fetching never fetches.
C2_OneFetchPerWindow ==
    /\ window_fetches <= 1
    /\ \A w \in Workers : wk[w].blocked => ~wk[w].fetched

\* C2, amended: fetches never overlap, a caller tests and fetches only
\* while it holds the lock and fetches only after finding the cache empty
\* or expired; a further fetch between two successful ones is made only
\* after the one before it failed; a caller that arrived during a fetch and
\* finds a good crumb when it gets the lock returns it without fetching.
C2_FetchesNeverOverlap ==
    /\ Cardinality(Fetching) <= 1
    /\ \A w \in Workers : wk[w].pc \in {"check", "fetch"} => lock = w
    /\ window_fetches <= window_failed + 1
    /\ \A w \in Fetching :
         /\ ~Fresh(wk[w].seen.token, wk[w].seen.expires, wk[w].seen.now)
         /\ wk[w].seen.token = crumb_token
         /\ wk[w].seen.expires = crumb_expires
    /\ \A w \in Workers :
         (wk[w].blocked /\ PastCrumb(w)
            /\ Fresh(wk[w].seen.token, wk[w].seen.expires, wk[w].seen.now))
         => (~wk[w].fetched /\ wk[w].crumb = wk[w].seen.token)

\* a caller that arrived while another was fetching has returned the crumb
\* the other one cached, without a fetch of its own
C2_Witness ==
    \E w \in Workers :
        /\ wk[w].blocked /\ PastCrumb(w)
        /\ ~wk[w].fetched
        /\ wk[w].crumb # None
        /\ \E v \in Workers \ {w} : wk[v].fetched /\ wk[v].crumb = wk[w].crumb

\* C3: a fetch that ends with a crumb at time t leaves it in the cache with
\* expiry t + 30; a call that tests the cache at a time before the expiry
\* returns the cached crumb, sends nothing and leaves the cache alone; a
\* call that tests it at the expiry or later fetches; and no fetch is under
\* way while the cached crumb is good.
C3_ValidityWindow ==
    /\ [](\A w \in Fetching : ~Fresh(crumb_token, crumb_expires, now))
    /\ [][\A w \in Workers :
            /\ (FetchEnds(w) /\ wk'[w].crumb # None) =>
                 /\ crumb_token' = wk'[w].crumb
                 /\ crumb_expires' = now + CrumbTTL
            /\ Checks(w) =>
                 IF crumb_token # None /\ crumb_expires # NoExpiry
                    /\ now < crumb_expires
                 THEN /\ wk'[w].pc = "send"
                      /\ wk'[w].crumb = crumb_token
                      /\ ~wk'[w].fetched
                      /\ window_fetches' = window_fetches
                      /\ UNCHANGED <<crumb_token, crumb_expires>>
                 ELSE /\ wk'[w].pc = "fetch"
                      /\ wk'[w].fetched
                      /\ window_fetches' = window_fetches + 1]_vars

\* one call got the cached crumb ten minutes or more after it was fetched,
\* another came at the very minute of the expiry and fetched
C3_Witness ==
    \E w, v \in Workers :
        /\ PastCrumb(w) /\ ~wk[w].fetched
        /\ wk[w].seen.now > 0 /\ wk[w].seen.now < wk[w].seen.expires
        /\ wk[w].crumb = wk[w].seen.token
        /\ wk[v].pc \in {"fetch", "send", "done"} /\ wk[v].fetched
        /\ wk[v].seen.token # None
        /\ wk[v].seen.now = wk[v].seen.expires

\* the responses of the crumb issuer that hold no crumb
FailedCrumbResponses == {resp \in CrumbResponses : resp.kind # "ok"}

IsMutating(method) == Upper(method) \in {mPOST, mPUT, mDELETE}

\* C5: a call of the executor goes through the crumb cache exactly when its
\* verb is POST, PUT or DELETE, and has done so before the request is sent;
\* the request carries the crumb header exactly when a crumb was obtained,
\* and is sent without it when none was; a call with another verb neither
\* takes the lock nor changes the cache.
C5_CrumbForMutatingVerbs ==
    /\ [](\A w \in Workers :
            /\ wk[w].pc \in {"lock", "check", "fetch"} =>
                 IsMutating(wk[w].method) /\ wk[w].sent = NoCall
            /\ wk[w].pc \in {"send", "done"} =>
                 (wk[w].seen # NoCall <=> IsMutating(wk[w].method))
            /\ wk[w].pc = "send" => wk[w].sent = NoCall
            /\ wk[w].pc = "done" =>
                 /\ wk[w].sent # NoCall
                 /\ wk[w].sent.method = wk[w].method
                 /\ (wk[w].sent.crumb # None <=> wk[w].crumb # None)
                 /\ wk[w].sent.crumb = wk[w].crumb
                 /\ (~IsMutating(wk[w].method) => wk[w].sent.crumb = None))
    /\ [][\A w \in Workers :
            (wk'[w] # wk[w]
               /\ ~IsMutating(IF wk[w].pc = "idle" THEN wk'[w].method
                              ELSE wk[w].method))
            => UNCHANGED <<crumb_token, crumb_expires, lock>>]_vars

\* a POST written in lower case went through the cache, got no crumb and
\* was sent without the header, while a GET was sent with a crumb cached
C5_Witness ==
    \E w, v \in Workers :
        /\ wk[w].pc = "done" /\ wk[w].method = mPost
        /\ wk[w].fetched /\ wk[w].crumb = None
        /\ wk[w].sent.crumb = None
        /\ wk[v].pc = "done" /\ wk[v].method = mGET
        /\ crumb_token # None

-----------------------------------------------------------------------------
(* Properties of get_job_info when the fallback is not taken (Spec) *)

\* the direct lookup ended in an error and the fallback does not apply
DirectErrorPropagates ==
    /\ pc = "done" /\ op = "get_job_info"
    /\ \/ env.direct.kind = "transport"
       \/ env.direct.status \notin {200, 404}
       \/ (env.direct.status = 404 /\ ~args.auto_search)

\* C11: a 404 of the direct lookup with auto_search off ends get_job_info
\* with the HTTP error of that 404, not with a response object; any other
\* error of the direct lookup ends it with that error whatever auto_search
\* is; in both cases the direct lookup is the only request and no walk is
\* made.
C11_ErrorsPropagate ==
    DirectErrorPropagates =>
      /\ result.kind = "raise"
      /\ IF env.direct.kind = "http"
         THEN result.error = "HTTPError" /\ result.status = env.direct.status
         ELSE result.error = "ConnectionError"
      /\ ~env.walked
      /\ walk = NoWalk
      /\ http = <<DirectRequest(args.job_name)>>

\* a 404 with auto_search off, for a name some job of the remote holds,
\* ended in the 404 error
C11_Witness ==
    /\ DirectErrorPropagates
    /\ env.direct.kind = "http" /\ env.direct.status = 404
    /\ ~args.auto_search
    /\ result.kind = "raise" /\ result.status = 404
    /\ \E i \in DOMAIN server.root :
         Contains(Upper(server.root[i].name), Upper(args.job_name))

-----------------------------------------------------------------------------
(* Properties of the URLs (SpecUrl) *)

\* the number of occurrences of needle in hay, counted from the left
\* without overlap (str.count)
RECURSIVE CountOccurrences(_, _)
CountOccurrences(hay, needle) ==
    IF Len(hay) < Len(needle) THEN 0
    ELSE IF SubSeq(hay, 1, Len(needle)) = needle
         THEN 1 + CountOccurrences(SubSeq(hay, Len(needle) + 1, Len(hay)), needle)
         ELSE CountOccurrences(Tail(hay), needle)

\* the character a percent escape stands for
Unescaped(a, b) ==
    CASE a = "2" /\ b = "0" -> " "
      [] a = "2" /\ b = "B" -> "+"
      [] a = "2" /\ b = "5" -> "%"
      [] a = "2" /\ b = "F" -> "/"
      [] a = "2" /\ b = "C" -> ","
      [] OTHER -> "?"

\* text is the percent-encoding of a name: unreserved characters and
\* escapes only
RECURSIVE IsPercentEncoded(_)
IsPercentEncoded(text) ==
    IF text = <<>> THEN TRUE
    ELSE IF Head(text) = "%"
         THEN Len(text) >= 3 /\ IsPercentEncoded(SubSeq(text, 4, Len(text)))
         ELSE Head(text) \in Unreserved /\ IsPercentEncoded(Tail(text))

\* the name a percent-encoded text stands for
RECURSIVE Unquote(_)
Unquote(text) ==
    IF text = <<>> THEN <<>>
    ELSE IF Head(text) = "%" /\ Len(text) >= 3
         THEN <<Unescaped(text[2], text[3])>> \o Unquote(SubSeq(text, 4, Len(text)))
         ELSE <<Head(text)>> \o Unquote(Tail(text))

NestedRequestBuilt ==
    pc = "done" /\ result.kind = "return" /\ result.value.route = "nested"

\* C12: for a job path of two segments or more, the encoded path of
\* jenkins_request_nested holds '/job/' len(segments) - 1 times (counted
\* as str.count does), and cut at its '/' it is the percent-encoding of the
\* first segment, 'job', that of the second, 'job', and so on, each
\* segment encoded on its own, a segment named 'job' like any other.
C12_EncodedPath ==
    (NestedRequestBuilt /\ NumSegments(args.job_name) >= 2) =>
      LET segs == Segments(args.job_name)
          encoded == result.value.encoded_path
          pieces == Split(encoded)
      IN  /\ CountOccurrences(encoded, sJobSep) = Len(segs) - 1
          /\ Len(pieces) = 2 * Len(segs) - 1
          /\ \A i \in DOMAIN segs :
               /\ IsPercentEncoded(pieces[2 * i - 1])
               /\ Unquote(pieces[2 * i - 1]) = segs[i]
          /\ \A i \in 1..(Len(segs) - 1) : pieces[2 * i] = <<"j","o","b">>

\* a path of three segments, the middle one named 'job' and another with a
\* character that is escaped, was encoded
C12_Witness ==
    /\ NestedRequestBuilt
    /\ NumSegments(args.job_name) = 3
    /\ Segments(args.job_name)[2] = <<"j","o","b">>
    /\ \E i \in {1, 3} : Quote(Segments(args.job_name)[i]) # Segments(args.job_name)[i]
    /\ Contains(result.value.encoded_path, <<"/","j","o","b","/","j","o","b","/","j","o","b","/">>)

\* C19: whatever the job-scoped operation and the job path, the URL asked
\* for is the base, '/job/', the path with each segment percent-encoded and
\* the segments joined by '/job/', '/', and the suffix of the operation;
\* so a name of one segment sent by the flat route gets the URL the nested
\* route would build for it.
C19_SameUrlOnBothRoutes ==
    (pc = "done" /\ result.kind = "return") =>
      /\ result.value.url =
           BaseUrl \o sJobSep
                   \o JoinJob([i \in DOMAIN Segments(args.job_name) |->
                                  Quote(Segments(args.job_name)[i])])
                   \o <<"/">> \o args.suffix
      /\ (Contains(args.job_name, <<"/">>) => result.value.route = "nested")

-----------------------------------------------------------------------------
(* Properties of trigger_job (SpecTrigger) *)

\* the POST of the invocation has ended in a failure: no response, or a
\* response of status 400..599
PostFailed ==
    /\ "post_resp" \in DOMAIN env
    /\ \/ env.post_resp.kind = "transport"
       \/ env.post_resp.status >= 400

UnquotePlus(text) ==
    Unquote([i \in DOMAIN text |-> IF text[i] = "+" THEN " " ELSE text[i]])

\* the elements of strs with a comma between each two
RECURSIVE CommaSeparated(_)
CommaSeparated(strs) ==
    IF Len(strs) = 0 THEN <<>>
    ELSE IF Len(strs) = 1 THEN strs[1]
    ELSE CommaSeparated(SubSeq(strs, 1, Len(strs) - 1))
         \o <<",">> \o strs[Len(strs)]

\* the string a parameter value is to be sent as
ExpectedString(value) ==
    CASE value.t = "list" ->
           CommaSeparated([i \in DOMAIN value.v |-> Str(value.v[i])])
      [] value.t = "bool" ->
           IF value.v THEN <<"t","r","u","e">> ELSE <<"f","a","l","s","e">>
      [] OTHER -> Str(value)

\* the parameters trigger_job unpacked from its argument
SentParams == JenkinsParams(args.params).value

\* processed is the mapping of the parameters sent: the same names, each
\* value the expected string
IsProcessed(processed) ==
    /\ SentParams.t = "dict" /\ processed.t = "dict"
    /\ DOMAIN processed.v = DOMAIN SentParams.v
    /\ \A key \in DOMAIN processed.v :
         processed.v[key] = ExpectedString(SentParams.v[key])

\* C14: process_jenkins_parameters keeps the names and maps a list to its
\* elements joined by commas, a boolean to 'true' or 'false', anything else
\* to its plain string; whenever trigger_job sends parameters, the body of
\* its POST is the form-encoding of that mapping, which it also returns,
\* and without parameters the POST has no body.
C14_ParametersAsStrings ==
    /\ \A i \in TriggerRequests :
         IF http[i].suffix = "buildWithParameters"
         THEN /\ http[i].data.t = "dict"
              /\ IsProcessed(PyDict([key \in DOMAIN http[i].data.v |->
                                        UnquotePlus(http[i].data.v[key])]))
         ELSE http[i].data = PyNone /\ ~Truthy(SentParams)
    /\ (pc = "done" /\ result.kind = "return" /\ TriggerRequests # {}) =>
         LET t == IF op = "trigger_job" THEN result.value
                  ELSE result.value.trigger_result
         IN  IF Truthy(SentParams) THEN IsProcessed(t.processed_params)
             ELSE t.processed_params = PyNone

\* a trigger sent a boolean, a list, a text with a space and a None, and
\* was accepted
C14_Witness ==
    /\ op = "trigger_job" /\ pc = "done" /\ result.kind = "return"
    /\ \E i \in TriggerRequests : http[i].suffix = "buildWithParameters"
    /\ SentParams.t = "dict"
    /\ {SentParams.v[key].t : key \in DOMAIN SentParams.v}
         = {"bool", "list", "str", "none"}
    /\ result.value.processed_params.v["flag"] = <<"f","a","l","s","e">>

-----------------------------------------------------------------------------
(* Properties of the browsing operations under failed fetches (Spec) *)

\* C15: list_jobs, recursive or not, and search_jobs never end in an error
\* because a remote fetch failed; the caller receives a list.
C15_BrowsingNeverFails ==
    (pc = "done" /\ op \in {"list_jobs", "search_jobs"}) =>
      result.kind = "return"

-----------------------------------------------------------------------------
(* Properties of the request ids in the log (SpecTrigger) *)

\* C16: every HTTP call made while serving one tool invocation is logged
\* with the same request id, the one minted when the invocation began, also
\* when the call is made by a tool function called from another tool.
C16_OneCorrelationId ==
    pc # "idle" =>
      /\ Len(local.log) = Len(http)
      /\ \A i \in DOMAIN local.log : local.log[i] = GetRequestContext(0)

-----------------------------------------------------------------------------
(* Properties of the order of the walk (Spec) *)

\* the container a full_name lies in, and its own name
ParentOf(full_name) ==
    JoinSlash(SubSeq(Segments(full_name), 1, NumSegments(full_name) - 1))

LastSegment(full_name) == Segments(full_name)[NumSegments(full_name)]

\* a type tag that holds 'folder' in some mix of cases
HasFolderTag(class) ==
    \E a \in 1..(Len(class) - 5) :
        \A k \in 1..6 :
            \E c \in DOMAIN LowerChars :
                /\ LowerChars[c] = folderMarker[k]
                /\ class[a + k - 1] \in {LowerChars[c], UpperChars[c]}

\* the items of the walk that lie below its item i
Below(i) ==
    {j \in DOMAIN walk.jobs :
        IsAncestor(walk.jobs[i].full_name, walk.jobs[j].full_name)}

\* the items of the walk that the container at path lists
ChildrenOf(path) ==
    {j \in DOMAIN walk.jobs : ParentOf(walk.jobs[j].full_name) = path}

\* the folders of the walk above the depth bound
FoldersToFetch ==
    {j \in DOMAIN walk.jobs :
        /\ walk.jobs[j].type = "folder"
        /\ NumSegments(walk.jobs[j].full_name) < WalkBound}

\* C17: the result of the walk is in pre-order. Every item is an entry of
\* the listing of its container, typed folder exactly when its tag holds
\* 'folder' in any case and job otherwise, with full_name the container's
\* path, '/', and the name (the name alone at the top level); the items
\* below a folder follow it without a gap, before its next sibling, and a
\* job has none; the entries of a listing appear in the order of the
\* listing; the requests are the top-level one and one per folder, in the
\* order of the folders, and none for a job.
C17_PreOrder ==
    (WalkDone /\ WalkBound > 0) =>
      /\ \A j \in DOMAIN walk.jobs :
           LET it == walk.jobs[j]
               listing == ServerResponse(server, env.fail, ParentOf(it.full_name)).jobs
           IN  /\ it.name = LastSegment(it.full_name)
               /\ \E k \in DOMAIN listing :
                    /\ listing[k].name = it.name
                    /\ it.type = (IF HasFolderTag(listing[k].class)
                                  THEN "folder" ELSE "job")
               /\ \E r \in DOMAIN walk.reqs :
                    walk.reqs[r].path = ParentOf(it.full_name)
      /\ \A i \in DOMAIN walk.jobs :
           /\ Below(i) = (i + 1)..(i + Cardinality(Below(i)))
           /\ walk.jobs[i].type = "job" => Below(i) = {}
      /\ \A r \in DOMAIN walk.reqs :
           LET path == walk.reqs[r].path
               listing == ServerResponse(server, env.fail, path).jobs
           IN  /\ Cardinality(ChildrenOf(path)) = Len(listing)
               /\ \A k \in DOMAIN listing :
                    walk.jobs[Kth(ChildrenOf(path), k)].name = listing[k].name
      /\ Len(walk.reqs) = 1 + Cardinality(FoldersToFetch)
      /\ walk.reqs[1].path = <<>>
      /\ \A k \in 1..Cardinality(FoldersToFetch) :
           walk.reqs[k + 1].path = walk.jobs[Kth(FoldersToFetch, k)].full_name

\* a walk listed a folder tagged in upper case, at least two items below
\* it, and then its next sibling
C17_Witness ==
    /\ WalkDone /\ WalkBound > 0
    /\ \E i \in DOMAIN walk.jobs :
         /\ walk.jobs[i].type = "folder"
         /\ NumSegments(walk.jobs[i].full_name) = 1
         /\ \E k \in DOMAIN server.root :
              /\ server.root[k].name = walk.jobs[i].name
              /\ server.root[k].class = cOrgFolder
         /\ Cardinality(Below(i)) >= 2
         /\ (i + Cardinality(Below(i)) + 1) \in DOMAIN walk.jobs

-----------------------------------------------------------------------------
(* Properties of the recursion of the walk (SpecWalk) *)

\* the remote hierarchy is cyclic below the top level: every folder there
\* reports a folder child, without end
IsCyclic(srv) ==
    /\ \E i \in DOMAIN srv.sub[nLib] : srv.sub[nLib][i].name = nBF
    /\ \E i \in DOMAIN srv.sub[nBF] : srv.sub[nBF][i].name = nLib

\* a segment of the path comes twice
Revisits(full_name) ==
    \E a, b \in DOMAIN Segments(full_name) :
        a # b /\ Segments(full_name)[a] = Segments(full_name)[b]

\* at most max_depth recursive calls are nested below the first call, the
\* k-th call of the stack runs at depth k - 1, and only calls below the
\* bound have fetched
NestingBounded ==
    pc = "walking" =>
      /\ Len(local.stack) <= args.max_depth + 1
      /\ \A k \in DOMAIN local.stack :
           /\ local.stack[k].current_depth = k - 1
           /\ local.stack[k].current_depth <= args.max_depth
           /\ local.stack[k].stage = "loop" =>
                local.stack[k].current_depth < args.max_depth

\* the walk that ended returned what _collect_jobs_recursive is defined to
\* return, after the requests it is defined to make
WalkReturned ==
    (pc = "done" /\ op = "_collect_jobs_recursive") =>
      LET w == CollectJobsRecursive(server, env.fail, <<>>, args.max_depth, 0)
      IN  /\ result = Returned(w.jobs)
          /\ walk.jobs = w.jobs
          /\ walk.reqs = w.reqs

\* C18: for every max_depth the walk ends, also on a cyclic hierarchy in
\* which every folder reports a folder child, each listing being finite and
\* each fetch returning or failing; the recursive calls are never nested
\* deeper than max_depth.
C18_WalkTerminates ==
    /\ [](NestingBounded /\ WalkReturned)
    /\ (pc = "walking") ~> (pc = "done")

\* a walk to the greatest depth of a cyclic hierarchy ended, having gone
\* round the cycle
C18_Witness ==
    /\ pc = "done" /\ op = "_collect_jobs_recursive"
    /\ IsCyclic(server)
    /\ args.max_depth = MaxDepth
    /\ \E j \in DOMAIN walk.jobs : Revisits(walk.jobs[j].full_name)

-----------------------------------------------------------------------------
(* Properties of search_and_trigger under failed fetches (SpecTrigger) *)

\* the jobs of the remote tree within max_depth that the pattern matches:
\* those a walk without any failed fetch finds
RemoteHits ==
    LET tree == CollectJobsRecursive(server, {}, <<>>, args.max_depth, 0).jobs
    IN  {i \in DOMAIN tree :
            tree[i].type = "job" /\ MatchesWildcard(tree[i], args.pattern)}

\* C20: search_and_trigger sends a trigger request only if exactly one job
\* of the remote tree within max_depth matches the pattern, also when some
\* folder fetches of the search walk failed.
C20_UniqueInRemoteTree ==
    (op = "search_and_trigger" /\ TriggerRequests # {}) =>
      Cardinality(RemoteHits) = 1

=============================================================================
